---------------------------- MODULE Spec2Model ----------------------------
(***************************************************************************)
(* A model of the AI Study Book Generator.                                 *)
(*                                                                         *)
(*   App (React component)       the screen state machine, the project     *)
(*                               history and its local-storage copy        *)
(*   generateStudyBook           the generation pipeline: draft text,      *)
(*                               extract placeholders, classify, rewrite,  *)
(*                               synthesize, splice                        *)
(*   StudyBookDisplay            the PDF export button                     *)
(*                                                                         *)
(* An async function is modelled by its position (pc) and its locals; one  *)
(* action is the arrival of the reply to the awaited remote call together  *)
(* with the continuation that runs up to the next await (or to the end of  *)
(* the function and of its caller's continuation).  React applies the      *)
(* state updates of one continuation as one batch.                         *)
(*                                                                         *)
(* Text is a sequence of tokens: the literal "[IMAGE:" is one token, every *)
(* other token is one character (or an opaque run of ordinary characters). *)
(***************************************************************************)
EXTENDS Integers, Sequences, FiniteSets, TLC

VARIABLES
    \* ---- App state (useState hooks)
    appState,            \* 'form' | 'loading' | 'result' | 'error'
    loadingMessage,      \* the progress message
    result,              \* <<>> for null, <<r>> for a StudyBookResult r
    error,               \* <<>> for null, <<prefix, reason>> for a message
    projects,            \* SavedProject[] (newest first)
    theme,               \* 'light' | 'dark'
    \* ---- browser
    storage,             \* localStorage['studyBookProjects']: <<>> absent, <<list>> present
                         \* (the JSON text is held as the list it encodes: projects are
                         \* strings, numbers, arrays and plain objects, which
                         \* JSON.stringify and JSON.parse keep as they are)
    now,                 \* Date.now(), a counter; earlier sessions lie in the past (< 0)
    \* ---- StudyBookDisplay
    downloadingPdf,      \* useState<boolean>
    clones,              \* export clones currently appended to document.body
    \* ---- generateStudyBook: position and locals of the latest invocation
    pc,                  \* idle | draft | classify | rewrite | synth | resolved | rejected
    inFlight,            \* invocations of generateStudyBook not yet settled
    formData,            \* the argument
    markdownContent,
    groundingChunks,     \* <<>> no grounding metadata, <<list>> the chunks
    sources,
    imagePrompts,
    typeResponse,        \* the classification reply, until the next reply arrives
    imageTypes,
    i,                   \* loop index (0-based, as in the code)
    visualPrompt,
    generatedImageUrls,
    finalContent,
    \* ---- remote service
    calls,               \* log of the remote calls issued by the latest invocation
    pending              \* remote calls issued and not yet answered

appVars == <<appState, loadingMessage, result, error, projects, theme, storage, now>>
pdfVars == <<downloadingPdf, clones>>
runVars == <<pc, inFlight, formData, markdownContent, groundingChunks, sources,
             imagePrompts, typeResponse, imageTypes, i, visualPrompt,
             generatedImageUrls, finalContent, calls, pending>>
vars == <<appVars, pdfVars, runVars>>

-----------------------------------------------------------------------------
(* Bounds of the model *)

\* placeholders per drafted text
MaxSegs == 2
\* grounding chunks per draft reply
MaxChunks == 2
\* generations per session
MaxRuns == 2

(* Program constants *)

\* [newProject, ...prevProjects].slice(0, 10)
MaxProjects == 10
\* originalPrompt.substring(0, 30)
SubstringLen == 30

-----------------------------------------------------------------------------
(* Sequences *)

Take(s, n) == SubSeq(s, 1, IF n < Len(s) THEN n ELSE Len(s))

Drop(s, n) == SubSeq(s, n + 1, Len(s))

Min(a, b) == IF a < b THEN a ELSE b

-----------------------------------------------------------------------------
(* Tokens of text *)

OPEN == "[IMAGE:"
CLOSE == "]"
SP == " "
NL == "\n"

\* \s of the regular expression
IsSpace(c) == c \in {SP, NL}

\* . of the regular expression (no s flag): anything but a line terminator
IsDot(c) == c # NL


-----------------------------------------------------------------------------
(* The extraction pattern /\[IMAGE:\s*(.*?)\]/g and its exec loop *)

\* \s* from position p: the first position at or after p that holds no
\* white space (greedy; giving white space back never helps, as . matches
\* a space and fails on a line break wherever the prompt starts)
RECURSIVE SkipSpaces(_, _)
SkipSpaces(s, p) ==
    IF p <= Len(s) /\ IsSpace(s[p]) THEN SkipSpaces(s, p + 1) ELSE p

\* (.*?)\] from position p: the position of the first "]" reached over
\* characters that . matches, 0 when there is none
RECURSIVE FindClose(_, _)
FindClose(s, p) ==
    IF p > Len(s) THEN 0
    ELSE IF s[p] = CLOSE THEN p
    ELSE IF IsDot(s[p]) THEN FindClose(s, p + 1)
    ELSE 0

\* the match that starts at position p: [from, to] of the capture group and
\* the position of the closing bracket; close = 0 when there is no match
MatchAt(s, p) ==
    IF p <= Len(s) /\ s[p] = OPEN
    THEN LET q == SkipSpaces(s, p + 1)
             c == FindClose(s, q)
         IN  [from |-> q, close |-> c]
    ELSE [from |-> 0, close |-> 0]

\* regex.exec with the g flag, from lastIndex p: the leftmost match
RECURSIVE Exec(_, _)
Exec(s, p) ==
    IF p > Len(s) THEN [start |-> 0, from |-> 0, close |-> 0]
    ELSE LET m == MatchAt(s, p)
         IN  IF m.close # 0
             THEN [start |-> p, from |-> m.from, close |-> m.close]
             ELSE Exec(s, p + 1)

\* while ((match = regex.exec(markdownContent)) !== null) imagePrompts.push(match[1])
RECURSIVE ExtractFrom(_, _)
ExtractFrom(s, p) ==
    LET m == Exec(s, p)
    IN  IF m.start = 0 THEN << >>
        ELSE <<SubSeq(s, m.from, m.close - 1)>> \o ExtractFrom(s, m.close + 1)

ExtractPrompts(s) == ExtractFrom(s, 1)

-----------------------------------------------------------------------------
(* String.prototype.replace with a string pattern: the first occurrence *)
(* (the $-patterns of a replacement string do not arise: no token is a $) *)

OccursAt(s, pat, p) ==
    /\ p + Len(pat) - 1 <= Len(s)
    /\ SubSeq(s, p, p + Len(pat) - 1) = pat

\* 1-based position of the first occurrence of pat in s, 0 when absent
RECURSIVE IndexFrom(_, _, _)
IndexFrom(s, pat, p) ==
    IF p + Len(pat) - 1 > Len(s) THEN 0
    ELSE IF OccursAt(s, pat, p) THEN p
    ELSE IndexFrom(s, pat, p + 1)

StringReplace(s, pat, rep) ==
    LET k == IndexFrom(s, pat, 1)
    IN  IF k = 0 THEN s
        ELSE SubSeq(s, 1, k - 1) \o rep \o SubSeq(s, k + Len(pat), Len(s))

\* the template literal `[IMAGE: ${prompt}]`
PlaceholderLiteral(prompt) == <<OPEN, SP>> \o prompt \o <<CLOSE>>

\* `<img src="${imageUrl}" alt="${prompt}" class="my-6 rounded-lg shadow-lg mx-auto" />`
ImgTag(imageUrl, prompt) ==
    <<"<img src=">> \o imageUrl \o <<" alt=">> \o prompt \o <<" class=my-6 />">>

\* `data:image/png;base64,${base64ImageBytes}`
DataUrl(bytes) == <<"data:image/png;base64,", bytes>>

\* one iteration of imagePrompts.forEach in the splice
SpliceOne(content, prompt, imageUrl) ==
    IF imageUrl # << >>
    THEN StringReplace(content, PlaceholderLiteral(prompt), ImgTag(imageUrl, prompt))
    ELSE StringReplace(content, PlaceholderLiteral(prompt), << >>)

\* imagePrompts.forEach((prompt, index) => ...) from index k on
RECURSIVE SpliceFrom(_, _, _, _)
SpliceFrom(content, prompts, urls, k) ==
    IF k > Len(prompts) THEN content
    ELSE SpliceFrom(SpliceOne(content, prompts[k],
                              IF k <= Len(urls) THEN urls[k] ELSE << >>),
                    prompts, urls, k + 1)

Splice(content, prompts, urls) == SpliceFrom(content, prompts, urls, 1)

-----------------------------------------------------------------------------
(* The sources list *)

\* A grounding chunk is [web |-> << >>] (no web entry) or
\* [web |-> <<[uri |-> u, title |-> t]>>]; a missing title is "".
NoWeb == [web |-> << >>]

\* self.findIndex(w => w.uri === uri) over webs[k..]: the index found, 0 for
\* -1, and -1 when reading w.uri of an undefined w throws a TypeError
RECURSIVE FindIndexUri(_, _, _)
FindIndexUri(webs, uri, k) ==
    IF k > Len(webs) THEN 0
    ELSE IF webs[k] = << >> THEN -1
    ELSE IF webs[k][1].uri = uri THEN k
    ELSE FindIndexUri(webs, uri, k + 1)

\* the filter callback: "keep", "drop" or "throw"
FilterWeb(webs, k) ==
    IF webs[k] = << >> THEN "drop"
    ELSE LET f == FindIndexUri(webs, webs[k][1].uri, 1)
         IN  IF f = -1 THEN "throw" ELSE IF f = k THEN "keep" ELSE "drop"

\* web => ({ title: web.title || web.uri, uri: web.uri })
SourceOf(web) ==
    [title |-> IF web.title # "" THEN web.title ELSE web.uri, uri |-> web.uri]

RECURSIVE SourcesFrom(_, _)
SourcesFrom(webs, k) ==
    IF k > Len(webs) THEN << >>
    ELSE IF FilterWeb(webs, k) = "keep"
         THEN <<SourceOf(webs[k][1])>> \o SourcesFrom(webs, k + 1)
         ELSE SourcesFrom(webs, k + 1)

\* chunks: <<>> when the reply has no grounding metadata, else <<list>>
SourcesThrow(chunks) ==
    /\ chunks # << >>
    /\ LET webs == [k \in 1..Len(chunks[1]) |-> chunks[1][k].web]
       IN  \E k \in 1..Len(webs) : FilterWeb(webs, k) = "throw"

ComputeSources(chunks) ==
    IF chunks = << >> THEN << >>
    ELSE SourcesFrom([k \in 1..Len(chunks[1]) |-> chunks[1][k].web], 1)

-----------------------------------------------------------------------------
(* Classification *)

\* The reply of the classification call: status "error" when the call
\* rejects; else its text, given by what JSON.parse makes of it: valid
\* (parses), isArray (Array.isArray of the parsed value), items (the array).
NoTypeResponse == [status |-> "none", valid |-> FALSE, isArray |-> FALSE, items |-> << >>]

\* Array(imagePrompts.length).fill('diagram')
AllDiagram(n) == [k \in 1..n |-> "diagram"]

\* a slip: the default is 'photograph'
TypeOfInverted(t) == IF t = "diagram" THEN "diagram" ELSE "photograph"

\* t => (t === 'photograph' ? 'photograph' : 'diagram')
TypeOf(t) == IF t = "photograph" THEN "photograph" ELSE "diagram"

\* the try block of the classification stage, the catch included
ClassifyTypes(reply, n) ==
    IF reply.status # "ok" THEN AllDiagram(n)
    ELSE IF ~reply.valid THEN AllDiagram(n)
    ELSE IF reply.isArray /\ Len(reply.items) = n
         THEN [k \in 1..n |-> TypeOf(reply.items[k])]
         ELSE AllDiagram(n)


-----------------------------------------------------------------------------
(* Values *)

\* a progress message; the two templated messages carry their parameters
Msg(text) == [text |-> text, index |-> 0, total |-> 0, type |-> "", prompt |-> << >>]

\* `Processing illustration ${i + 1} of ${imagePrompts.length}...`
ProcessingMsg(k, n) ==
    [text |-> "Processing illustration", index |-> k + 1, total |-> n,
     type |-> "", prompt |-> << >>]

\* `Generating ${imageType} ${i + 1} of ${n}: "${originalPrompt.substring(0, 30)}..."`
GeneratingMsg(type, k, n, prompt) ==
    [text |-> "Generating", index |-> k + 1, total |-> n, type |-> type,
     prompt |-> Take(prompt, SubstringLen)]

\* formData.topic.trim(): the inputs of the model are "", " " or a word
Trim(str) == IF str \in {"", " "} THEN "" ELSE str

\* isFormValid of StudyBookForm: the submit button is disabled without it
IsFormValid(fd) == Trim(fd.topic) # "" /\ Trim(fd.subtopic) # ""

NoFormData == [topic |-> "", subtopic |-> "", guide |-> "", references |-> ""]

\* `${formData.topic}: ${formData.subtopic}`
Title(fd) == <<fd.topic, ": ", fd.subtopic>>

\* an entry of the call log: a call as issued
Call(kind, idx, prompt) ==
    [kind |-> kind, idx |-> idx, prompt |-> prompt, status |-> "pending", data |-> << >>]

\* the call log with its last call answered
Answered(log, status, data) ==
    [log EXCEPT ![Len(log)] = [@ EXCEPT !.status = status, !.data = data]]

\* err instanceof Error ? err.message : 'An unknown error occurred.'
ErrorMessage(err) == IF err.isError THEN err.message ELSE "An unknown error occurred."

\* a slip: the message without its prefix
ErrorTextNoPrefix(err) == <<ErrorMessage(err), "">>

\* `Failed to generate study book. ${errorMessage}`
ErrorText(err) == <<"Failed to generate study book. ", ErrorMessage(err)>>

\* the TypeError of reading w.uri of an undefined w
UriTypeError ==
    [isError |-> TRUE, message |-> "Cannot read properties of undefined (reading 'uri')"]

\* a slip: the list is never cut
UpdatedProjectsNoSlice(newProject, prevProjects) == <<newProject>> \o prevProjects

\* [newProject, ...prevProjects].slice(0, 10)
UpdatedProjects(newProject, prevProjects) ==
    Take(<<newProject>> \o prevProjects, MaxProjects)

\* if (imagePrompts.length > 0)
HasPrompts(prompts) == Len(prompts) > 0

\* a slip: the loop stops one prompt early
LoopContinuesOffByOne(k, prompts) == k + 1 < Len(prompts)

\* the loop condition i < imagePrompts.length, for the next index k
LoopContinues(k, prompts) == k < Len(prompts)

\* a slip: the rewritten text is never used
VisualPromptIgnoresRewrite(reply, originalPrompt) == originalPrompt

\* visualPrompt after the rewrite try/catch
VisualPrompt(reply, originalPrompt) ==
    IF reply.status = "ok" THEN reply.text ELSE originalPrompt

\* what the synthesis try/catch pushes: the data URL of generatedImages[0],
\* '' when the call rejects or reading generatedImages[0].image throws
ImageUrl(reply) ==
    IF reply.status = "ok" /\ reply.images # << >>
    THEN DataUrl(reply.images[1]) ELSE << >>

\* a slip: unshift instead of push
PushUrlFront(urls, url) == <<url>> \o urls

\* generatedImageUrls.push(...)
PushUrl(urls, url) == Append(urls, url)

-----------------------------------------------------------------------------
(* What the user and the remote service can supply *)

Prompts == {<<"a">>, <<"b">>}

\* what follows the colon: nothing, or the one space of the requested format
Gaps == {<< >>, <<SP>>}

Placeholders == {<<OPEN>> \o g \o p \o <<CLOSE>> : g \in Gaps, p \in Prompts}

\* drafted texts with n placeholders, plain text around each
RECURSIVE TextsWith(_)
TextsWith(n) ==
    IF n = 0 THEN {<<"t">>}
    ELSE {t \o ph \o <<"t">> : t \in TextsWith(n - 1), ph \in Placeholders}

\* a line break or two spaces after the colon, a line break inside the brackets
OddDrafts ==
    {<<"t", OPEN, NL, "a", CLOSE>>,
     <<"t", OPEN, SP, SP, "b", CLOSE>>,
     <<"t", OPEN, SP, "a", NL, "b", CLOSE, "t">>}

Drafts == UNION {TextsWith(n) : n \in 0..MaxSegs} \cup OddDrafts

SimpleDraft == <<"t", OPEN, SP, "a", CLOSE, "t">>

ChunkKinds ==
    {NoWeb} \cup {[web |-> <<[uri |-> u, title |-> t]>>] : u \in {"u1", "u2"}, t \in {"", "T"}}

RECURSIVE ChunkListsOf(_)
ChunkListsOf(n) ==
    IF n = 0 THEN {<< >>}
    ELSE {Append(l, c) : l \in ChunkListsOf(n - 1), c \in ChunkKinds}

ChunkLists == UNION {ChunkListsOf(n) : n \in 0..MaxChunks}

\* what a rejected call throws: an Error, or something that is no Error
Errors == {[isError |-> TRUE, message |-> "503 UNAVAILABLE"],
           [isError |-> FALSE, message |-> ""]}

NoError == [isError |-> FALSE, message |-> ""]

DraftOk(text, chunks) == [status |-> "ok", text |-> text, chunks |-> chunks, err |-> NoError]

DraftFailed(err) == [status |-> "error", text |-> << >>, chunks |-> << >>, err |-> err]

DraftReplies ==
    {DraftOk(d, << >>) : d \in Drafts}
        \cup {DraftOk(SimpleDraft, <<l>>) : l \in ChunkLists}
        \cup {DraftFailed(e) : e \in Errors}

TypeWords == {"photograph", "diagram", "photo"}

RECURSIVE WordLists(_)
WordLists(n) ==
    IF n <= 0 THEN {<< >>}
    ELSE {Append(l, w) : l \in WordLists(n - 1), w \in TypeWords}

TypeOk(valid, isArray, items) ==
    [status |-> "ok", valid |-> valid, isArray |-> isArray, items |-> items]

TypeFailed == [status |-> "error", valid |-> FALSE, isArray |-> FALSE, items |-> << >>]

\* replies to the classification of n prompts
ClassifyReplies(n) ==
    {TypeFailed, TypeOk(FALSE, FALSE, << >>), TypeOk(TRUE, FALSE, << >>)}
        \cup {TypeOk(TRUE, TRUE, l) : l \in UNION {WordLists(m) : m \in (n - 1)..(n + 1)}}

RewriteReplies(prompt) ==
    {[status |-> "error", text |-> << >>],
     [status |-> "ok", text |-> <<"Detailed: ">> \o prompt]}

SynthReplies ==
    {[status |-> "error", images |-> << >>],
     [status |-> "ok", images |-> << >>],
     [status |-> "ok", images |-> <<"iVBORw0KGgo">>]}

FormInputs ==
    {[topic |-> t, subtopic |-> "Optics", guide |-> "", references |-> ""] :
        t \in {"", " ", "Physics"}}

\* the replies of a session of the whole app: a few of each kind
AppDraftReplies ==
    {DraftOk(<<"t">>, << >>),
     DraftOk(SimpleDraft, <<<<[web |-> <<[uri |-> "u1", title |-> "T"]>>]>>>>),
     DraftOk(SimpleDraft, <<<<NoWeb, [web |-> <<[uri |-> "u1", title |-> "T"]>>]>>>>)}
        \cup {DraftFailed(e) : e \in Errors}

AppClassifyReplies(n) == {TypeFailed, TypeOk(TRUE, TRUE, [k \in 1..n |-> "photograph"])}

AppSynthReplies ==
    {[status |-> "error", images |-> << >>],
     [status |-> "ok", images |-> <<"iVBORw0KGgo">>]}

\* a project saved by an earlier session, at time t < 0
StoredResult == [content |-> <<"t">>, sources |-> << >>]

StoredProject(t) ==
    [title |-> <<"Physics", ": ", "Optics">>, timestamp |-> t, result |-> StoredResult,
     formData |-> [topic |-> "Physics", subtopic |-> "Optics", guide |-> "",
                   references |-> ""]]

\* the list an earlier session left, newest first
StoredList(k) == [j \in 1..k |-> StoredProject(0 - j)]

StoredLengths == {0, MaxProjects - 1, MaxProjects}

-----------------------------------------------------------------------------
(* Initial state: the App is mounted and its first effects have run *)

\* the locals of an invocation before its first statement
FreshRun ==
    /\ markdownContent = << >>
    /\ groundingChunks = << >>
    /\ sources = << >>
    /\ imagePrompts = << >>
    /\ typeResponse = NoTypeResponse
    /\ imageTypes = << >>
    /\ i = 0
    /\ visualPrompt = << >>
    /\ generatedImageUrls = << >>
    /\ finalContent = << >>

Init ==
    /\ appState = "form"
    /\ loadingMessage = Msg("")
    /\ result = << >>
    /\ error = << >>
    /\ storage \in {<< >>} \cup {<<StoredList(k)>> : k \in StoredLengths}
    /\ projects = IF storage = << >> THEN << >> ELSE storage[1]
    /\ theme \in {"light", "dark"}
    /\ now = 0
    /\ downloadingPdf = FALSE
    /\ clones = 0
    /\ pc = "idle"
    /\ inFlight = 0
    /\ formData = NoFormData
    /\ FreshRun
    /\ calls = << >>
    /\ pending = 0

\* a session that starts with no saved projects
InitRun == Init /\ storage = << >> /\ theme = "dark"


-----------------------------------------------------------------------------
(* App.handleGenerate and generateStudyBook *)

\* the next prompt of the loop, << >> outside the loop
CurrentPrompt == IF i < Len(imagePrompts) THEN imagePrompts[i + 1] ELSE << >>

\* the rewrite instruction: one of two templates, chosen by the image type,
\* around the original prompt
RewriteInstruction(type, prompt) == <<type, " concept: ">> \o prompt

\* handleGenerate up to its await, and generateStudyBook up to its first
\* await: the draft-text call is issued
HandleGenerate(fd) ==
    /\ appState = "form"
    /\ IsFormValid(fd)
    /\ now < MaxRuns
    /\ appState' = "loading"
    /\ loadingMessage' = Msg("Researching and drafting content...")
    /\ error' = << >>
    /\ result' = << >>
    /\ formData' = fd
    /\ markdownContent' = << >>
    /\ groundingChunks' = << >>
    /\ sources' = << >>
    /\ imagePrompts' = << >>
    /\ typeResponse' = NoTypeResponse
    /\ imageTypes' = << >>
    /\ i' = 0
    /\ visualPrompt' = << >>
    /\ generatedImageUrls' = << >>
    /\ finalContent' = << >>
    /\ pc' = "draft"
    /\ inFlight' = inFlight + 1
    /\ calls' = <<Call("draft", 0, << >>)>>
    /\ pending' = pending + 1
    /\ UNCHANGED <<projects, theme, storage, now, pdfVars>>

\* a slip: the catch block returns to the form
RejectToForm(err) ==
    /\ error' = ErrorText(err)
    /\ appState' = "form"
    /\ pc' = "rejected"
    /\ inFlight' = inFlight - 1
    /\ UNCHANGED <<loadingMessage, result, projects, theme, storage, now, pdfVars>>

\* generateStudyBook throws err: the catch block of handleGenerate
Reject(err) ==
    /\ error' = ErrorText(err)
    /\ appState' = "error"
    /\ pc' = "rejected"
    /\ inFlight' = inFlight - 1
    /\ UNCHANGED <<loadingMessage, result, projects, theme, storage, now, pdfVars>>

\* generateStudyBook returns {content, sources}: handleGenerate shows the
\* result and saves the project; localStorage.setItem throws when the quota
\* is exceeded (caught and logged)
Finish(content, srcs, quotaOk) ==
    LET generatedData == [content |-> content, sources |-> srcs]
        newProject == [title |-> Title(formData), timestamp |-> now + 1,
                       result |-> generatedData, formData |-> formData]
        updatedProjects == UpdatedProjects(newProject, projects)
    IN  /\ loadingMessage' = Msg("Assembling the final study book...")
        /\ finalContent' = content
        /\ result' = <<generatedData>>
        /\ appState' = "result"
        /\ projects' = updatedProjects
        /\ storage' = IF quotaOk THEN <<updatedProjects>> ELSE storage
        /\ now' = now + 1
        /\ pc' = "resolved"
        /\ inFlight' = inFlight - 1
        /\ UNCHANGED <<error, theme, pdfVars>>

\* the draft-text call is answered
DraftReturns(reply, quotaOk) ==
    /\ pc = "draft"
    /\ pending' = pending - 1 + (IF reply.status = "ok" /\ ~SourcesThrow(reply.chunks)
                                    /\ HasPrompts(ExtractPrompts(reply.text))
                                 THEN 1 ELSE 0)
    /\ UNCHANGED <<formData, typeResponse, i, visualPrompt, generatedImageUrls>>
    /\ IF reply.status # "ok"
       THEN /\ calls' = Answered(calls, "error", << >>)
            /\ Reject(reply.err)
            /\ UNCHANGED <<markdownContent, groundingChunks, sources, imagePrompts,
                           imageTypes, finalContent>>
       ELSE /\ markdownContent' = reply.text
            /\ groundingChunks' = reply.chunks
            /\ IF SourcesThrow(reply.chunks)
               THEN /\ calls' = Answered(calls, "ok", << >>)
                    /\ Reject(UriTypeError)
                    /\ UNCHANGED <<sources, imagePrompts, imageTypes, finalContent>>
               ELSE /\ sources' = ComputeSources(reply.chunks)
                    /\ imagePrompts' = ExtractPrompts(reply.text)
                    /\ IF HasPrompts(imagePrompts')
                       THEN /\ imageTypes' = AllDiagram(Len(imagePrompts'))
                            /\ calls' = Append(Answered(calls, "ok", << >>),
                                               Call("classify", 0, << >>))
                            /\ pc' = "classify"
                            /\ loadingMessage' = Msg("Categorizing illustration types...")
                            /\ UNCHANGED <<appState, result, error, projects, theme,
                                           storage, now, pdfVars, inFlight, finalContent>>
                       ELSE /\ calls' = Answered(calls, "ok", << >>)
                            /\ UNCHANGED imageTypes
                            /\ Finish(Splice(reply.text, imagePrompts', generatedImageUrls),
                                      sources', quotaOk)

\* the classification call is answered; the loop starts and issues the
\* rewrite call for prompt 0
ClassifyReturns(reply) ==
    /\ pc = "classify"
    /\ typeResponse' = reply
    /\ imageTypes' = ClassifyTypes(reply, Len(imagePrompts))
    /\ i' = 0
    /\ visualPrompt' = imagePrompts[1]
    /\ loadingMessage' = ProcessingMsg(0, Len(imagePrompts))
    /\ calls' = Append(Answered(calls, reply.status, << >>),
                       Call("rewrite", 0, RewriteInstruction(imageTypes'[1], imagePrompts[1])))
    /\ pending' = pending - 1 + 1
    /\ pc' = "rewrite"
    /\ UNCHANGED <<appState, result, error, projects, theme, storage, now, pdfVars,
                   inFlight, formData, markdownContent, groundingChunks, sources,
                   imagePrompts, generatedImageUrls, finalContent>>

\* the rewrite call for prompt i is answered; the synthesis call for prompt
\* i is issued
RewriteReturns(reply) ==
    /\ pc = "rewrite"
    /\ typeResponse' = NoTypeResponse
    /\ visualPrompt' = VisualPrompt(reply, imagePrompts[i + 1])
    /\ loadingMessage' = GeneratingMsg(imageTypes[i + 1], i, Len(imagePrompts),
                                       imagePrompts[i + 1])
    /\ calls' = Append(Answered(calls, reply.status, reply.text),
                       Call("synth", i, visualPrompt'))
    /\ pending' = pending - 1 + 1
    /\ pc' = "synth"
    /\ UNCHANGED <<appState, result, error, projects, theme, storage, now, pdfVars,
                   inFlight, formData, markdownContent, groundingChunks, sources,
                   imagePrompts, imageTypes, i, generatedImageUrls, finalContent>>

\* the synthesis call for prompt i is answered; the loop goes on with
\* prompt i + 1, or ends: splice, return, and handleGenerate's continuation
SynthReturns(reply, quotaOk) ==
    /\ pc = "synth"
    /\ generatedImageUrls' = PushUrl(generatedImageUrls, ImageUrl(reply))
    /\ i' = i + 1
    /\ UNCHANGED <<formData, markdownContent, groundingChunks, sources, imagePrompts,
                   typeResponse, imageTypes>>
    /\ IF LoopContinues(i + 1, imagePrompts)
       THEN /\ visualPrompt' = imagePrompts[i + 2]
            /\ loadingMessage' = ProcessingMsg(i + 1, Len(imagePrompts))
            /\ calls' = Append(Answered(calls, reply.status, reply.images),
                               Call("rewrite", i + 1,
                                    RewriteInstruction(imageTypes[i + 2], imagePrompts[i + 2])))
            /\ pending' = pending - 1 + 1
            /\ pc' = "rewrite"
            /\ UNCHANGED <<appState, result, error, projects, theme, storage, now,
                           pdfVars, inFlight, finalContent>>
       ELSE /\ calls' = Answered(calls, reply.status, reply.images)
            /\ pending' = pending - 1
            /\ UNCHANGED visualPrompt
            /\ Finish(Splice(markdownContent, imagePrompts, generatedImageUrls'),
                      sources, quotaOk)

-----------------------------------------------------------------------------
(* The other handlers of App *)

\* a slip: the reset leaves the result in place
HandleResetKeepsResult ==
    /\ \/ appState = "result" /\ result # << >> /\ ~downloadingPdf
       \/ appState = "error"
    /\ appState' = "form"
    /\ error' = << >>
    /\ loadingMessage' = Msg("")
    /\ UNCHANGED <<result, projects, theme, storage, now, pdfVars, runVars>>

\* a slip: the loading screen offers the reset too
HandleResetWhileLoading ==
    /\ \/ appState = "result" /\ result # << >> /\ ~downloadingPdf
       \/ appState \in {"error", "loading"}
    /\ appState' = "form"
    /\ result' = << >>
    /\ error' = << >>
    /\ loadingMessage' = Msg("")
    /\ UNCHANGED <<projects, theme, storage, now, pdfVars, runVars>>

\* "Start Over" of the result screen (disabled while a PDF is exported; the
\* screen is rendered only with a result) and "Try Again" of the error screen
HandleReset ==
    /\ \/ appState = "result" /\ result # << >> /\ ~downloadingPdf
       \/ appState = "error"
    /\ appState' = "form"
    /\ result' = << >>
    /\ error' = << >>
    /\ loadingMessage' = Msg("")
    /\ UNCHANGED <<projects, theme, storage, now, pdfVars, runVars>>

\* a click on recent project k of the form
HandleSelectProject(k) ==
    /\ appState = "form"
    /\ k \in 1..Len(projects)
    /\ result' = <<projects[k].result>>
    /\ appState' = "result"
    /\ UNCHANGED <<loadingMessage, error, projects, theme, storage, now, pdfVars, runVars>>

\* the header's button, on every screen
ToggleTheme ==
    /\ theme' = IF theme = "light" THEN "dark" ELSE "light"
    /\ UNCHANGED <<appState, loadingMessage, result, error, projects, storage, now,
                   pdfVars, runVars>>

-----------------------------------------------------------------------------
(* StudyBookDisplay *)

\* a slip: the button stays enabled and the handler does not look at
\* downloadingPdf
HandleDownloadPdfUnguarded ==
    /\ appState = "result"
    /\ result # << >>
    /\ downloadingPdf' = TRUE
    /\ clones' = clones + 1
    /\ UNCHANGED <<appVars, runVars>>

\* a click on "Download as PDF" (disabled while downloadingPdf): the clone is
\* appended and html2canvas is awaited
HandleDownloadPdf ==
    /\ appState = "result"
    /\ result # << >>
    /\ ~downloadingPdf
    /\ downloadingPdf' = TRUE
    /\ clones' = clones + 1
    /\ UNCHANGED <<appVars, runVars>>

\* html2canvas resolves (the PDF is saved) or rejects (logged); finally the
\* clone is removed
Html2canvasReturns ==
    /\ clones > 0
    /\ clones' = clones - 1
    /\ downloadingPdf' = FALSE
    /\ UNCHANGED <<appVars, runVars>>

-----------------------------------------------------------------------------
(* Specifications *)

\* a session of the whole app
Next ==
    \/ \E fd \in FormInputs : HandleGenerate(fd)
    \/ \E r \in AppDraftReplies, q \in BOOLEAN : DraftReturns(r, q)
    \/ \E r \in AppClassifyReplies(Len(imagePrompts)) : ClassifyReturns(r)
    \/ \E r \in RewriteReplies(CurrentPrompt) : RewriteReturns(r)
    \/ \E r \in AppSynthReplies, q \in BOOLEAN : SynthReturns(r, q)
    \/ HandleReset
    \/ \E k \in 1..Len(projects) : HandleSelectProject(k)
    \/ ToggleTheme
    \/ HandleDownloadPdf
    \/ Html2canvasReturns

Spec == Init /\ [][Next]_vars

\* one generation, over every drafted text and every reply of the service
NextRun ==
    \/ \E fd \in FormInputs : HandleGenerate(fd)
    \/ \E r \in DraftReplies, q \in BOOLEAN : DraftReturns(r, q)
    \/ \E r \in ClassifyReplies(Len(imagePrompts)) : ClassifyReturns(r)
    \/ \E r \in RewriteReplies(CurrentPrompt) : RewriteReturns(r)
    \/ \E r \in SynthReplies, q \in BOOLEAN : SynthReturns(r, q)

SpecRun == InitRun /\ [][NextRun]_vars


-----------------------------------------------------------------------------
(* C1: the screen state machine *)

Resolves == pc # "resolved" /\ pc' = "resolved"

Rejects == pc # "rejected" /\ pc' = "rejected"

Running == pc \in {"draft", "classify", "rewrite", "synth"}

\* the transitions of form -> loading -> result/error and back
PipelineTransition ==
    \/ appState = "form" /\ appState' = "loading" /\ pc' = "draft"
    \/ appState = "loading" /\ appState' = "result" /\ Running /\ Resolves
    \/ appState = "loading" /\ appState' = "error" /\ Running /\ Rejects
    \/ appState \in {"result", "error"} /\ appState' = "form" /\ pc' = pc

\* handleSelectProject: a saved project is opened from the form
SelectTransition ==
    /\ appState = "form" /\ appState' = "result" /\ pc' = pc
    /\ \E k \in 1..Len(projects) : result' = <<projects[k].result>>

\* C1 as stated: appState changes only by form -> loading (handleGenerate),
\* loading -> result or error (the generation settles) and result or error
\* -> form (handleReset).
C1_OnlyPipelineTransitions ==
    [][appState' # appState => PipelineTransition]_vars

\* C1 as amended: appState changes only by those transitions or by
\* form -> result, when handleSelectProject opens a saved project.
C1_Transitions ==
    [][appState' # appState => PipelineTransition \/ SelectTransition]_vars

\* a saved project is on screen after a generation failed and was reset
C1_Witness == appState = "result" /\ pc = "rejected" /\ result = <<StoredResult>>

-----------------------------------------------------------------------------
(* C2: the order of the remote calls *)

\* the calls of a run that extracted n prompts, as <<kind, index>>
RECURSIVE LoopCalls(_, _)
LoopCalls(k, n) ==
    IF k >= n THEN << >>
    ELSE <<<<"rewrite", k>>, <<"synth", k>>>> \o LoopCalls(k + 1, n)

ExpectedCalls(n) ==
    IF n = 0 THEN <<<<"draft", 0>>>>
    ELSE <<<<"draft", 0>>, <<"classify", 0>>>> \o LoopCalls(0, n)

IssuedCalls == [k \in 1..Len(calls) |-> <<calls[k].kind, calls[k].idx>>]

IsPrefix(s, t) == Len(s) <= Len(t) /\ s = SubSeq(t, 1, Len(s))

\* C2: the calls of a run are issued one at a time, each after the previous
\* one was answered, in the order draft, classify (only with a prompt),
\* then rewrite i and synthesis i for i = 0, 1, ...; the run returns only
\* after all of them, and a run without prompts issues the draft call alone.
C2_CallsInOrder ==
    /\ pending <= 1
    /\ pending = Cardinality({k \in 1..Len(calls) : calls[k].status = "pending"})
    /\ \A k \in 1..(Len(calls) - 1) : calls[k].status # "pending"
    /\ IsPrefix(IssuedCalls, ExpectedCalls(Len(imagePrompts)))
    /\ Running => /\ calls[Len(calls)].kind = pc
                  /\ calls[Len(calls)].status = "pending"
    /\ pc = "resolved" => /\ IssuedCalls = ExpectedCalls(Len(imagePrompts))
                          /\ pending = 0

\* a run with two prompts has returned after its six calls
C2_Witness == pc = "resolved" /\ Len(imagePrompts) = 2 /\ Len(calls) = 6

-----------------------------------------------------------------------------
(* C3: the parallel lists at the splice *)

\* the log entry of the synthesis call for prompt k (1-based)
SynthCallOf(k) == calls[2 * k + 2]

\* the synthesis call delivered an image
Delivered(c) == c.status = "ok" /\ c.data # << >>

\* C3: when the run reaches the splice, imagePrompts, imageTypes and
\* generatedImageUrls have the same length, and entry k of
\* generatedImageUrls is the outcome of the synthesis call made for prompt
\* k: the (non-empty) data URL of the image it delivered, or the empty
\* string when it delivered none.
C3_ParallelLists ==
    pc = "resolved" =>
        /\ Len(imageTypes) = Len(imagePrompts)
        /\ Len(generatedImageUrls) = Len(imagePrompts)
        /\ \A k \in 1..Len(imagePrompts) :
            /\ SynthCallOf(k).kind = "synth"
            /\ SynthCallOf(k).idx = k - 1
            /\ SynthCallOf(k).prompt \in
                   {imagePrompts[k], <<"Detailed: ">> \o imagePrompts[k]}
            /\ IF Delivered(SynthCallOf(k))
               THEN /\ generatedImageUrls[k] = DataUrl(SynthCallOf(k).data[1])
                    /\ generatedImageUrls[k] # << >>
               ELSE generatedImageUrls[k] = << >>

\* the first image failed and the second was delivered
C3_Witness ==
    /\ pc = "resolved"
    /\ Len(imagePrompts) = 2
    /\ imagePrompts[1] # imagePrompts[2]
    /\ generatedImageUrls[1] = << >>
    /\ generatedImageUrls[2] # << >>

-----------------------------------------------------------------------------
(* C4: failures after the draft *)

\* C4: a run whose draft-text call succeeded never rejects, whatever the
\* classification, rewrite and synthesis calls do.
C4_NoRejectAfterDraft ==
    pc = "rejected" => calls[1].status = "error"

-----------------------------------------------------------------------------
(* C5: the image types *)

\* the types the claim prescribes for a classification reply
PrescribedTypes(reply, n) ==
    IF \/ reply.status = "error"
       \/ ~reply.valid
       \/ ~reply.isArray
       \/ Len(reply.items) # n
    THEN [k \in 1..n |-> "diagram"]
    ELSE [k \in 1..n |->
             IF reply.items[k] = "photograph" THEN "photograph" ELSE "diagram"]

\* C5: every image type is 'diagram' or 'photograph'; after a classification
\* reply that threw, is no JSON, is no array or has the wrong length all are
\* 'diagram', and after an array of the right length entry k is 'photograph'
\* exactly when the reply's entry k is the string 'photograph'.
C5_ImageTypes ==
    /\ \A k \in 1..Len(imageTypes) : imageTypes[k] \in {"diagram", "photograph"}
    /\ pc \in {"classify", "rewrite", "synth", "resolved"}
           => Len(imageTypes) = Len(imagePrompts)
    /\ typeResponse.status # "none"
           => imageTypes = PrescribedTypes(typeResponse, Len(imagePrompts))

\* a reply of the right length with one 'photograph' and one other word
C5_Witness ==
    /\ typeResponse = TypeOk(TRUE, TRUE, <<"photograph", "photo">>)
    /\ imageTypes = <<"photograph", "diagram">>

-----------------------------------------------------------------------------
(* C6: a rejected generation *)

\* C6: when generateStudyBook rejects, the app shows the error screen with
\* the message 'Failed to generate study book. <reason>', result stays
\* null, and the project list and its stored copy are left as they were.
C6_RejectShowsError ==
    [][Rejects =>
         /\ appState' = "error"
         /\ Len(error') = 2
         /\ error'[1] = "Failed to generate study book. "
         /\ error'[2] \in {"503 UNAVAILABLE", "An unknown error occurred.",
                           UriTypeError.message}
         /\ result' = << >>
         /\ projects' = projects
         /\ storage' = storage]_vars

\* the draft-text call failed in a session that has saved projects
C6_Witness ==
    /\ appState = "error"
    /\ pc = "rejected"
    /\ calls[1].status = "error"
    /\ error = <<"Failed to generate study book. ", "503 UNAVAILABLE">>
    /\ Len(projects) = MaxProjects

-----------------------------------------------------------------------------
(* C7: the screen and its data *)

\* C7: result is non-null exactly on the result screen and error is
\* non-null exactly on the error screen.
C7_ScreenMatchesData ==
    /\ (result # << >>) <=> (appState = "result")
    /\ (error # << >>) <=> (appState = "error")

\* back on the form after a generated book was shown
C7_Witness == appState = "form" /\ pc = "resolved" /\ result = << >> /\ error = << >>

-----------------------------------------------------------------------------
(* C8: the project list *)

NewestFirst(list) ==
    \A k \in 1..(Len(list) - 1) : list[k].timestamp > list[k + 1].timestamp

\* C8: the project list holds at most 10 projects, newest first; it changes
\* only when a generation succeeds, which puts the new project at index 0,
\* keeps the previous ones in their order behind it and drops the oldest
\* beyond 10; and what that save writes to local storage is the new list.
C8_ProjectList ==
    /\ [](Len(projects) <= MaxProjects /\ NewestFirst(projects))
    /\ [][/\ projects' # projects => Resolves
          /\ storage' # storage => Resolves /\ storage' = <<projects'>>
          /\ Resolves =>
               /\ Len(projects') = Min(Len(projects) + 1, MaxProjects)
               /\ projects'[1].timestamp = now'
               /\ projects'[1].result = result'[1]
               /\ projects'[1].title = Title(formData)
               /\ Drop(projects', 1) = Take(projects, MaxProjects - 1)]_vars

\* a session that started with 10 projects saved an 11th: the oldest is gone
C8_Witness ==
    /\ Len(projects) = MaxProjects
    /\ projects[1].timestamp = 1
    /\ projects[MaxProjects].timestamp = 1 - MaxProjects
    /\ storage = <<projects>>

-----------------------------------------------------------------------------
(* C9: one generation at a time *)

\* C9: at most one generateStudyBook run is in flight, and exactly while
\* the app is loading; while it is loading no generation can be started,
\* nothing can be reset and no project can be selected, and only the
\* settling of the run changes appState, result, error or the project list.
C9_OneGeneration ==
    /\ [](/\ inFlight <= 1
          /\ (inFlight = 1) <=> (appState = "loading")
          /\ (appState = "loading") <=> Running
          /\ appState = "loading" =>
                /\ ~ENABLED (\E fd \in FormInputs : HandleGenerate(fd))
                /\ ~ENABLED HandleReset
                /\ ~ENABLED (\E k \in 1..Len(projects) : HandleSelectProject(k)))
    /\ [][appState = "loading"
            /\ <<appState, result, error, projects>>' # <<appState, result, error, projects>>
          => Resolves \/ Rejects]_vars

\* the second generation of a session is in flight, waiting for an image
C9_Witness == appState = "loading" /\ pc = "synth" /\ inFlight = 1 /\ now = 1

-----------------------------------------------------------------------------
(* C10: no placeholder is left *)

\* C10: the content a run returns holds no text that the extraction
\* pattern matches.
C10_NoPlaceholderLeft ==
    pc = "resolved" => ExtractPrompts(finalContent) = << >>

-----------------------------------------------------------------------------
(* C11: the splice keeps the order of the placeholders *)

\* what the claim puts in the place of the k-th placeholder
OutcomeOf(prompt, urls, k) ==
    IF urls[k] # << >> THEN ImgTag(urls[k], prompt) ELSE << >>

\* the text from position p on, with the k-th, (k+1)-th, ... occurrence of
\* the extraction pattern replaced by the outcome of the prompt of the same
\* rank
RECURSIVE SpliceByRank(_, _, _, _)
SpliceByRank(s, p, urls, k) ==
    LET m == Exec(s, p)
    IN  IF m.start = 0 THEN SubSeq(s, p, Len(s))
        ELSE SubSeq(s, p, m.start - 1)
                 \o OutcomeOf(SubSeq(s, m.from, m.close - 1), urls, k)
                 \o SpliceByRank(s, m.close + 1, urls, k + 1)

\* C11: in the returned content the k-th placeholder of the drafted text
\* is replaced by the outcome of the k-th extracted prompt: its image tag,
\* or nothing when that image failed.
C11_OrderKept ==
    pc = "resolved" =>
        finalContent = SpliceByRank(markdownContent, 1, generatedImageUrls, 1)

-----------------------------------------------------------------------------
(* C12: the sources list *)

\* the uri of chunk k, << >> when the chunk has no web entry
UriOf(list, k) == IF list[k].web = << >> THEN << >> ELSE <<list[k].web[1].uri>>

\* chunk k has a web entry whose uri no earlier chunk carries
FirstOfItsUri(list, k) ==
    /\ list[k].web # << >>
    /\ \A j \in 1..(k - 1) : UriOf(list, j) # UriOf(list, k)

\* the sources the claim prescribes for the chunks from k on: one entry per
\* distinct uri, in order of first occurrence, titled by the chunk's title
\* or, without one, by the uri
RECURSIVE PrescribedFrom(_, _)
PrescribedFrom(list, k) ==
    IF k > Len(list) THEN << >>
    ELSE IF FirstOfItsUri(list, k)
         THEN <<[title |-> IF list[k].web[1].title = "" THEN list[k].web[1].uri
                           ELSE list[k].web[1].title,
                 uri |-> list[k].web[1].uri]>> \o PrescribedFrom(list, k + 1)
         ELSE PrescribedFrom(list, k + 1)

PrescribedSources(chunks) ==
    IF chunks = << >> THEN << >> ELSE PrescribedFrom(chunks[1], 1)

\* C12: after a successful draft-text call the run does not fail on the
\* grounding chunks, whether or not they carry a web entry, and its sources
\* list has exactly one entry per distinct web uri, in order of first
\* occurrence, titled by the title or else the uri; without grounding
\* metadata the list is empty.
C12_SourcesDeduplicated ==
    (pc \notin {"idle", "draft"} /\ calls[1].status = "ok") =>
        /\ pc # "rejected"
        /\ sources = PrescribedSources(groundingChunks)

-----------------------------------------------------------------------------
(* C13: the prompt of the synthesis call *)

\* the log entries of the rewrite and the synthesis call for prompt k (1-based)
RewriteCallOf(k) == calls[2 * k + 1]

SynthCalls == {j \in 1..Len(calls) : calls[j].kind = "synth"}

\* C13: the synthesis call for prompt k is issued whether the rewrite call
\* for prompt k failed or not; it carries the original extracted prompt
\* when the rewrite failed and the rewritten text when it succeeded; and a
\* run issues exactly one synthesis call per extracted prompt.
C13_SynthesisPrompt ==
    /\ \A j \in 1..Len(calls) :
          (calls[j].kind = "rewrite" /\ calls[j].status # "pending")
              => (j < Len(calls) /\ calls[j + 1].kind = "synth"
                                 /\ calls[j + 1].idx = calls[j].idx)
    /\ \A k \in 1..Len(imagePrompts) :
          2 * k + 2 <= Len(calls) =>
              /\ RewriteCallOf(k).kind = "rewrite" /\ RewriteCallOf(k).idx = k - 1
              /\ SynthCallOf(k).kind = "synth" /\ SynthCallOf(k).idx = k - 1
              /\ RewriteCallOf(k).status = "error"
                     => SynthCallOf(k).prompt = imagePrompts[k]
              /\ RewriteCallOf(k).status = "ok"
                     => SynthCallOf(k).prompt = RewriteCallOf(k).data
    /\ \A j \in SynthCalls, l \in SynthCalls : calls[j].idx = calls[l].idx => j = l
    /\ pc = "resolved" =>
          {calls[j].idx : j \in SynthCalls} = {k - 1 : k \in 1..Len(imagePrompts)}

\* the rewrite for the first prompt failed and the one for the second succeeded
C13_Witness ==
    /\ pc = "resolved"
    /\ Len(imagePrompts) = 2
    /\ RewriteCallOf(1).status = "error"
    /\ SynthCallOf(1).prompt = imagePrompts[1]
    /\ RewriteCallOf(2).status = "ok"
    /\ SynthCallOf(2).prompt = <<"Detailed: ">> \o imagePrompts[2]

-----------------------------------------------------------------------------
(* C14: one PDF export at a time *)

\* C14: at most one export is in progress, and exactly while
\* downloadingPdf is set; while one is in progress no click can start a
\* second export (no second clone is appended) and the reset cannot be
\* triggered, so the export ends on the result screen it started from.
\* The PDF is saved in the step that ends an export, and every such step
\* ends the one export in progress: no second PDF is saved.
C14_OneExport ==
    /\ [](/\ clones <= 1
          /\ downloadingPdf <=> (clones = 1)
          /\ downloadingPdf =>
                /\ appState = "result"
                /\ ~ENABLED HandleDownloadPdf
                /\ ~ENABLED HandleReset)
    /\ [][/\ clones' > clones => (clones = 0 /\ ~downloadingPdf /\ clones' = 1)
          /\ clones' < clones => (clones = 1 /\ downloadingPdf /\ clones' = 0)
          /\ downloadingPdf => (appState' = appState /\ result' = result)]_vars

\* an export is in progress on the result screen of a generated book
C14_Witness ==
    downloadingPdf /\ clones = 1 /\ appState = "result" /\ pc = "resolved"

=============================================================================
